---- MODULE Spec2Model ----
(***************************************************************************)
(* Churn extractor (code_churn_extractor.py) and IQ validator              *)
(* (iq_system.py) as state machines.                                       *)
(*                                                                         *)
(*  SpecExtract   one run of extract_code_churn over a commit history      *)
(*  SpecValidate  one run of iq_system.main over a churn_data.csv          *)
(*  SpecScore     compute_timeliness before and after one record is added  *)
(***************************************************************************)
EXTENDS Integers, Sequences, FiniteSets, TLC

VARIABLES
    \* ---- extract_code_churn ----
    repo_path,      \* "missing" | "notrepo" | "valid": what lies at repo_path
    history,        \* what repo.iter_commits() yields, in its order
    outfile,        \* the file at output_csv: [exists, rows]
    outfile0,       \* the file at output_csv before the run (history variable)
    epc,            \* position in extract_code_churn
    raised,         \* exception that left the running function, "" if none
    commits,        \* local: list(repo.iter_commits())
    idx,            \* local: number of loop iterations finished
    churn_records,  \* local: the accumulated records
    skipped,        \* the hashes printed by the "Skipping commit" warning
    \* ---- iq_system.main ----
    csv,            \* the file churn_data.csv: [exists, rows]
    today,          \* the day dt.datetime.today() falls on
    vpc,            \* position in main
    df,             \* the DataFrame main holds
    df0,            \* the DataFrame as read_csv returned it (history variable)
    checks,         \* result of free_of_error_checks, <<>> before it returns
    timeliness,     \* result of compute_timeliness: [num, den], NoScore before
    chart,          \* TRUE once iq_check_results.png has been written
    \* ---- compute_timeliness on an extended dataset ----
    added,          \* the record appended to df
    timeliness2     \* compute_timeliness of the extended dataset

vars == <<repo_path, history, outfile, outfile0, epc, raised, commits, idx,
          churn_records, skipped, csv, today, vpc, df, df0, checks,
          timeliness, chart, added, timeliness2>>

extractVars == <<repo_path, history, outfile, outfile0, epc, commits, idx,
                 churn_records, skipped>>
validateVars == <<csv, today, vpc, df, df0, checks, timeliness, chart>>
scoreVars == <<added, timeliness2>>

\* ---------------------------------------------------------------- bounds
MaxCommits == 3     \* longest commit history
MaxRows == 3        \* most data rows in churn_data.csv

\* ------------------------------------------------------ program constants
HashLen == 8            \* commit.hexsha[:8]; len(str(x)) == 8
WindowDays == 90        \* pd.Timedelta(days=90)
LocLimit == 10000       \* df["loc_modified"] < 10000

\* --------------------------------------------------- text <-> value tables
\* Decimal text of the integers that occur, as csv.writer prints them and
\* read_csv parses them.
NumText ==
    [s \in {"-1", "0", "1", "2", "3", "4", "5", "6", "10000"} |->
        CASE s = "-1" -> -1 [] s = "0" -> 0 [] s = "1" -> 1 [] s = "2" -> 2
          [] s = "3" -> 3 [] s = "4" -> 4 [] s = "5" -> 5 [] s = "6" -> 6
          [] s = "10000" -> 10000]

IntText(n) == CHOOSE s \in DOMAIN NumText : NumText[s] = n

\* "%Y-%m-%d" text of the days that occur; a day is counted from 2024-01-01.
DayText ==
    [s \in {"2024-01-01", "2024-03-31", "2024-04-01"} |->
        CASE s = "2024-01-01" -> 0 [] s = "2024-03-31" -> 90
          [] s = "2024-04-01" -> 91]

Strftime(day) == CHOOSE s \in DOMAIN DayText : DayText[s] = day

\* ======================================================================
\* code_churn_extractor.py
\* ======================================================================

\* dict.get(key, default)
Get(d, k, default) == IF k \in DOMAIN d THEN d[k] ELSE default

\* Entries of commit.stats.files: path and the per-file dictionary.  GitPython
\* fills insertions/deletions/lines; FileC lacks "deletions" so that the
\* default of .get is exercised.
FileA == [path |-> "src/a.py",  stats |-> [insertions |-> 3, deletions |-> 2, lines |-> 5]]
FileB == [path |-> "README.md", stats |-> [insertions |-> 1, deletions |-> 0, lines |-> 1]]
FileC == [path |-> "docs/x.md", stats |-> [insertions |-> 2, lines |-> 2]]

\* The commits a history is drawn from.  fails names where the try body of
\* the commit raises: "stats" at commit.stats.files, "attr" while the first
\* record's commit-level fields are evaluated (before the append), "none".
CommitPool ==
    { [hexsha |-> "1111aaaa00", author |-> [present |-> TRUE, name |-> "Al"],
       day |-> 0, files |-> <<FileA, FileB>>, fails |-> "none"],
      [hexsha |-> "2222bbbb00", author |-> [present |-> TRUE, name |-> "Bo"],
       day |-> 90, files |-> <<>>, fails |-> "none"],
      [hexsha |-> "3333cccc00", author |-> [present |-> TRUE, name |-> "Al"],
       day |-> 90, files |-> <<FileA>>, fails |-> "stats"],
      [hexsha |-> "4444dddd00", author |-> [present |-> TRUE, name |-> "Bo"],
       day |-> 91, files |-> <<FileB, FileC>>, fails |-> "attr"],
      [hexsha |-> "5555eeee00", author |-> [present |-> FALSE, name |-> ""],
       day |-> 91, files |-> <<FileC>>, fails |-> "none"],
      [hexsha |-> "6666ffff00", author |-> [present |-> TRUE, name |-> "Al"],
       day |-> 0, files |-> <<>>, fails |-> "attr"] }

\* Orderings of distinct commits, at most MaxCommits long.
Histories ==
    { h \in UNION { [1..n -> CommitPool] : n \in 0..MaxCommits } :
        \A i, j \in 1..Len(h) : i # j => h[i] # h[j] }

\* Files the destination may hold before the run.
NoFile == [exists |-> FALSE, rows |-> <<>>]
OldFile == [exists |-> TRUE, rows |-> << <<"old">> >>]

Header == <<"commit_hash", "author", "date", "file_path", "module",
            "loc_added", "loc_deleted", "loc_modified">>

\* "/" in file_path, and file_path.split("/")[0]
HasSlash(p) == \E i \in 1..Len(p) : SubSeq(p, i, i) = "/"
FirstSegment(p) ==
    LET i == CHOOSE k \in 1..Len(p) :
                 /\ SubSeq(p, k, k) = "/"
                 /\ \A m \in 1..(k - 1) : SubSeq(p, m, m) # "/"
    IN SubSeq(p, 1, i - 1)

\* The list appended for one (commit, file) pair.
Record(c, f) ==
    LET loc_added == Get(f.stats, "insertions", 0)
        loc_deleted == Get(f.stats, "deletions", 0)
    IN [commit_hash |-> SubSeq(c.hexsha, 1, HashLen),
        author |-> IF c.author.present THEN c.author.name ELSE "Unknown",
        date |-> Strftime(c.day),
        file_path |-> f.path,
        module |-> IF HasSlash(f.path) THEN FirstSegment(f.path) ELSE "root",
        loc_added |-> loc_added,
        loc_deleted |-> loc_deleted,
        loc_modified |-> loc_added + loc_deleted]

\* Whether the try body of a commit raises.  An "attr" failure needs a first
\* loop iteration to be evaluated in.
Raises(c) == c.fails = "stats" \/ (c.fails = "attr" /\ Len(c.files) > 0)

\* The records one loop iteration leaves appended: none when the body raised.
\* Faulty variant: the records of a commit are kept although its body raised.
CommitRecordsKeepFailed(c) == [j \in 1..Len(c.files) |-> Record(c, c.files[j])]
\* Faulty variant: only the first file of a commit gets a record.
CommitRecordsFirstOnly(c) ==
    IF Raises(c) \/ Len(c.files) = 0 THEN <<>> ELSE <<Record(c, c.files[1])>>
CommitRecords(c) ==
    IF Raises(c) THEN <<>> ELSE [j \in 1..Len(c.files) |-> Record(c, c.files[j])]

\* The checks before the walk: os.path.exists, then git.Repo(repo_path).
\* Faulty variant: the path is not validated.
RepoErrorNone(p) == ""
RepoError(p) ==
    CASE p = "missing" -> "FileNotFoundError"
      [] p = "notrepo" -> "InvalidGitRepositoryError"
      [] OTHER -> ""

\* csv.writer: one text row per record, numbers in decimal.
CsvRow(r) ==
    <<r.commit_hash, r.author, r.date, r.file_path, r.module,
      IntText(r.loc_added), IntText(r.loc_deleted), IntText(r.loc_modified)>>
CsvRows(recs) == [k \in 1..Len(recs) |-> CsvRow(recs[k])]

\* if not os.path.exists(repo_path): raise FileNotFoundError
CheckPath ==
    /\ epc = "start"
    /\ IF RepoError(repo_path) = "FileNotFoundError"
       THEN epc' = "raised" /\ raised' = "FileNotFoundError"
       ELSE epc' = "open" /\ raised' = raised
    /\ UNCHANGED <<repo_path, history, outfile, outfile0, commits, idx,
                   churn_records, skipped>>
    /\ UNCHANGED <<validateVars, scoreVars>>

\* repo = git.Repo(repo_path); commits = list(repo.iter_commits())
OpenRepo ==
    /\ epc = "open"
    /\ IF RepoError(repo_path) # ""
       THEN /\ epc' = "raised"
            /\ raised' = RepoError(repo_path)
            /\ UNCHANGED <<commits, churn_records>>
       ELSE /\ epc' = "loop"
            /\ commits' = history
            /\ churn_records' = <<>>
            /\ raised' = raised
    /\ UNCHANGED <<repo_path, history, outfile, outfile0, idx, skipped>>
    /\ UNCHANGED <<validateVars, scoreVars>>

\* One iteration of the for loop: the try body, or its except branch.
LoopCommit ==
    /\ epc = "loop"
    /\ idx < Len(commits)
    /\ LET c == commits[idx + 1]
           new == CommitRecords(c)
       IN /\ churn_records' = churn_records \o new
          /\ skipped' = IF Raises(c)
                        THEN Append(skipped, SubSeq(c.hexsha, 1, HashLen))
                        ELSE skipped
    /\ idx' = idx + 1
    /\ UNCHANGED <<repo_path, history, outfile, outfile0, epc, raised, commits>>
    /\ UNCHANGED <<validateVars, scoreVars>>

\* with open(output_csv, "w"): header, then every record
WriteCsv ==
    /\ epc = "loop"
    /\ idx = Len(commits)
    /\ outfile' = [exists |-> TRUE, rows |-> <<Header>> \o CsvRows(churn_records)]
    /\ epc' = "done"
    /\ UNCHANGED <<repo_path, history, outfile0, raised, commits, idx,
                   churn_records, skipped>>
    /\ UNCHANGED <<validateVars, scoreVars>>

\* ======================================================================
\* iq_system.py
\* ======================================================================

Columns == {Header[i] : i \in 1..Len(Header)}
ColIndex(col) == CHOOSE i \in 1..Len(Header) : Header[i] = col

\* Values a DataFrame cell holds: a number, a string, NaN, a Timestamp (its
\* day), NaT.
Num(n) == [k |-> "num", v |-> n, s |-> ""]
Str(x) == [k |-> "str", v |-> 0, s |-> x]
NaN == [k |-> "nan", v |-> 0, s |-> ""]
Ts(d) == [k |-> "ts", v |-> d, s |-> ""]
NaT == [k |-> "nat", v |-> 0, s |-> ""]

IsNull(c) == c.k \in {"nan", "nat"}

\* The data rows a churn_data.csv is drawn from: a clean row as the extractor
\* writes it, and that row with one field changed.
BaseRow == <<"1111aaaa", "Al", "2024-01-01", "src/a.py", "src", "3", "2", "5">>
With(row, col, text) == [row EXCEPT ![ColIndex(col)] = text]
RowPool ==
    {BaseRow}
    \cup {With(BaseRow, "date", t) : t \in {"2024-03-31", "2024-04-01", "foo", "bar", ""}}
    \cup {With(BaseRow, "commit_hash", "1111aaa")}
    \cup {With(BaseRow, "author", t) : t \in {"A", ""}}
    \cup {With(BaseRow, "module", "")}
    \cup {With(BaseRow, "loc_added", t) : t \in {"-1", "abc"}}
    \cup {With(BaseRow, "loc_deleted", "abc")}
    \cup {With(BaseRow, "loc_modified", t) : t \in {"6", "abc"}}

DataSets == UNION { [1..n -> RowPool] : n \in 0..MaxRows }

\* pd.read_csv: the first row names the columns; an empty field is NaN; a
\* column whose fields are all numbers or empty is numeric, any other column
\* holds its fields as strings.
ReadCsv(rows) ==
    LET data == Tail(rows)
        head == rows[1]
        pos(col) == CHOOSE j \in 1..Len(head) : head[j] = col
        numeric(j) == \A i \in 1..Len(data) :
                          data[i][j] = "" \/ data[i][j] \in DOMAIN NumText
        cell(i, j) == IF data[i][j] = "" THEN NaN
                      ELSE IF numeric(j) THEN Num(NumText[data[i][j]])
                      ELSE Str(data[i][j])
    IN [i \in 1..Len(data) |-> [col \in Columns |-> cell(i, pos(col))]]

\* pd.to_datetime(..., errors="coerce") of one cell
ToDatetime(c) ==
    IF c.k = "str" /\ c.s \in DOMAIN DayText THEN Ts(DayText[c.s])
    ELSE IF c.k = "ts" THEN c
    ELSE NaT

Column(d, col) == [i \in 1..Len(d) |-> d[i][col]]

\* An object column (one holding a string) compared or added to a number
\* raises TypeError.
HasStr(col) == \E i \in 1..Len(col) : col[i].k = "str"

\* df.duplicated().any(): some row equals an earlier row (NaN equal to NaN).
AnyDuplicated(d) == \E i, j \in 1..Len(d) : i < j /\ d[i] = d[j]

\* Series.is_monotonic_increasing / _decreasing of a datetime column: a NaT
\* makes both false.
MonotonicIncreasing(col) ==
    /\ \A i \in 1..Len(col) : col[i].k = "ts"
    /\ \A i \in 1..(Len(col) - 1) : col[i].v <= col[i + 1].v
MonotonicDecreasing(col) ==
    /\ \A i \in 1..Len(col) : col[i].k = "ts"
    /\ \A i \in 1..(Len(col) - 1) : col[i].v >= col[i + 1].v

\* len(str(x)) of a cell
StrLen(c) ==
    CASE c.k = "str" -> Len(c.s)
      [] c.k = "num" -> Len(IntText(c.v))
      [] OTHER -> 3

CheckNames == {"missing_values", "valid_dates", "no_duplicates",
               "non_negative_LOC", "LOC_consistency", "reasonable_LOC_bounds",
               "valid_commit_hash", "author_validity", "module_field_presence",
               "chronological_order"}

\* df["date"] = pd.to_datetime(df["date"], errors="coerce"): the frame the
\* caller passed is assigned to.
ParseDates(d) == [i \in 1..Len(d) |-> [d[i] EXCEPT !["date"] = ToDatetime(@)]]

\* free_of_error_checks(df): the frame as it leaves it, the dictionary
\* returned ("checks", <<>> when an exception left the function) and that
\* exception ("error").
FreeOfErrorChecks(d0, now) ==
    LET d == ParseDates(d0)
        date == Column(d, "date")
        la == Column(d, "loc_added")
        ld == Column(d, "loc_deleted")
        lm == Column(d, "loc_modified")
        ge0(col) == \A i \in 1..Len(col) : col[i].k = "num" /\ col[i].v >= 0
        \* line 32-34: "and" evaluates a comparison only if those before hold
        raise4 == \/ HasStr(la)
                  \/ (ge0(la) /\ HasStr(ld))
                  \/ (ge0(la) /\ ge0(ld) /\ HasStr(lm))
        \* line 38: the sum raises on a string, the == does not
        raise5 == HasStr(la) \/ HasStr(ld)
        \* line 41
        raise6 == HasStr(lm)
        result ==
          [name \in CheckNames |->
            CASE name = "missing_values" ->
                   \A i \in 1..Len(d0) : \A col \in Columns : ~IsNull(d0[i][col])
              [] name = "valid_dates" ->
                   /\ \A i \in 1..Len(date) : ~IsNull(date[i])
                   /\ \A i \in 1..Len(date) : date[i].k = "ts" /\ date[i].v <= now
              [] name = "no_duplicates" -> ~AnyDuplicated(d)
              [] name = "non_negative_LOC" -> ge0(la) /\ ge0(ld) /\ ge0(lm)
              [] name = "LOC_consistency" ->
                   \A i \in 1..Len(d) :
                       /\ la[i].k = "num" /\ ld[i].k = "num" /\ lm[i].k = "num"
                       /\ lm[i].v = la[i].v + ld[i].v
              [] name = "reasonable_LOC_bounds" ->
                   \A i \in 1..Len(lm) : lm[i].k = "num" /\ lm[i].v < LocLimit
              [] name = "valid_commit_hash" ->
                   \A i \in 1..Len(d) : StrLen(d[i]["commit_hash"]) = HashLen
              [] name = "author_validity" ->
                   \A i \in 1..Len(d) :
                       d[i]["author"].k = "str" /\ Len(d[i]["author"].s) > 1
              [] name = "module_field_presence" ->
                   \A i \in 1..Len(d) : ~IsNull(d[i]["module"])
              [] name = "chronological_order" ->
                   MonotonicIncreasing(date) \/ MonotonicDecreasing(date)]
        error == IF raise4 \/ raise5 \/ raise6 THEN "TypeError" ELSE ""
    IN [df |-> d, checks |-> IF error = "" THEN result ELSE <<>>, error |-> error]

\* A score is the pair len(recent_records), len(df); the quotient is compared
\* by cross-multiplication.
NoScore == [num |-> 0, den |-> 0]
Leq(a, b) == a.num * b.den <= b.num * a.den

\* df["date"].max(): NaT is skipped; NaT when nothing is left.
MaxDate(col) ==
    LET days == {col[i].v : i \in {j \in 1..Len(col) : col[j].k = "ts"}}
    IN IF days = {} THEN NaT
       ELSE Ts(CHOOSE m \in days : \A x \in days : x <= m)

\* latest_date - pd.Timedelta(days=90)
\* Faulty variant: the window is not subtracted.
CutoffDateNoWindow(latest) == latest
CutoffDate(latest) == IF latest.k = "ts" THEN Ts(latest.v - WindowDays) ELSE NaT

\* df["date"] >= cutoff_date, for one cell: false for NaT on either side
\* Faulty variant: a record dated exactly on the cutoff is left out.
IsRecentStrict(c, cutoff) == c.k = "ts" /\ cutoff.k = "ts" /\ c.v > cutoff.v
IsRecent(c, cutoff) == c.k = "ts" /\ cutoff.k = "ts" /\ c.v >= cutoff.v

\* compute_timeliness(df): the score returned, or the exception.  A date
\* column still holding strings fails at the subtraction of the Timedelta.
ComputeTimeliness(d) ==
    LET date == Column(d, "date")
        parsed == \A i \in 1..Len(date) : date[i].k \in {"ts", "nat"}
        latest_date == MaxDate(date)
        cutoff_date == CutoffDate(latest_date)
        recent_records == SelectSeq(d, LAMBDA r : IsRecent(r["date"], cutoff_date))
    IN IF ~parsed THEN [score |-> NoScore, error |-> "TypeError"]
       ELSE IF Len(d) = 0 THEN [score |-> NoScore, error |-> "ZeroDivisionError"]
       ELSE [score |-> [num |-> Len(recent_records), den |-> Len(d)], error |-> ""]

NoChecks == <<>>

\* The order of the calls main makes once the file is loaded.
\* Faulty variant: the score is computed before the checks.
StepAfterScoreFirst(step) ==
    CASE step = "load" -> "score"
      [] step = "score" -> "checks"
      [] step = "checks" -> "visualize"
      [] step = "visualize" -> "done"
StepAfter(step) ==
    CASE step = "load" -> "checks"
      [] step = "checks" -> "score"
      [] step = "score" -> "visualize"
      [] step = "visualize" -> "done"

\* if not os.path.exists(csv_path): print(...); return
MainMissing ==
    /\ vpc = "start"
    /\ ~csv.exists
    /\ vpc' = "returned"
    /\ UNCHANGED <<csv, today, df, df0, checks, timeliness, chart, raised>>
    /\ UNCHANGED <<extractVars, scoreVars>>

\* df = pd.read_csv(csv_path)
MainLoad ==
    /\ vpc = "start"
    /\ csv.exists
    /\ df' = ReadCsv(csv.rows)
    /\ df0' = df'
    /\ vpc' = StepAfter("load")
    /\ UNCHANGED <<csv, today, checks, timeliness, chart, raised>>
    /\ UNCHANGED <<extractVars, scoreVars>>

\* results = free_of_error_checks(df); summarize_check_results(results)
MainChecks ==
    /\ vpc = "checks"
    /\ LET r == FreeOfErrorChecks(df, today)
       IN /\ df' = r.df
          /\ checks' = r.checks
          /\ raised' = r.error
          /\ vpc' = IF r.error = "" THEN StepAfter("checks") ELSE "raised"
    /\ UNCHANGED <<csv, today, df0, timeliness, chart>>
    /\ UNCHANGED <<extractVars, scoreVars>>

\* timeliness = compute_timeliness(df)
MainTimeliness ==
    /\ vpc = "score"
    /\ LET r == ComputeTimeliness(df)
       IN /\ timeliness' = r.score
          /\ raised' = r.error
          /\ vpc' = IF r.error = "" THEN StepAfter("score") ELSE "raised"
    /\ UNCHANGED <<csv, today, df, df0, checks, chart>>
    /\ UNCHANGED <<extractVars, scoreVars>>

\* visualize_iq_results(results, timeliness); manual_check_reputability()
MainVisualize ==
    /\ vpc = "visualize"
    /\ chart' = TRUE
    /\ vpc' = StepAfter("visualize")
    /\ UNCHANGED <<csv, today, df, df0, checks, timeliness, raised>>
    /\ UNCHANGED <<extractVars, scoreVars>>

\* ======================================================================
\* compute_timeliness of a dataset and of the dataset with one more record
\* ======================================================================

\* The frame compute_timeliness receives in main for a given file.
Loaded(rows, now) == FreeOfErrorChecks(ReadCsv(rows), now).df

ScoreBase ==
    /\ vpc = "base"
    /\ timeliness' = ComputeTimeliness(df).score
    /\ vpc' = "add"
    /\ UNCHANGED <<csv, today, df, df0, checks, chart, raised, added, timeliness2>>
    /\ UNCHANGED extractVars

AddRecord ==
    /\ vpc = "add"
    /\ csv' = [csv EXCEPT !.rows = Append(@, added)]
    /\ df' = Loaded(csv'.rows, today)
    /\ vpc' = "extended"
    /\ UNCHANGED <<today, df0, checks, timeliness, chart, raised, added, timeliness2>>
    /\ UNCHANGED extractVars

ScoreExtended ==
    /\ vpc = "extended"
    /\ timeliness2' = ComputeTimeliness(df).score
    /\ vpc' = "compared"
    /\ UNCHANGED <<csv, today, df, df0, checks, timeliness, chart, raised, added>>
    /\ UNCHANGED extractVars

\* ======================================================================
\* Specifications
\* ======================================================================

ExtractIdle ==
    /\ repo_path = "valid" /\ history = <<>> /\ outfile = NoFile
    /\ outfile0 = NoFile /\ epc = "idle" /\ commits = <<>> /\ idx = 0
    /\ churn_records = <<>> /\ skipped = <<>>

ValidateIdle ==
    /\ csv = NoFile /\ today = 0 /\ vpc = "idle" /\ df = <<>> /\ df0 = <<>>
    /\ checks = NoChecks /\ timeliness = NoScore /\ chart = FALSE

ScoreIdle == added = BaseRow /\ timeliness2 = NoScore

\* dt.datetime.today() falls on one of these days.
Todays == {DayText["2024-03-31"], DayText["2024-04-01"] + WindowDays}

InitExtract ==
    /\ repo_path \in {"missing", "notrepo", "valid"}
    /\ history \in (IF repo_path = "valid" THEN Histories ELSE {<<>>})
    /\ outfile \in {NoFile, OldFile}
    /\ outfile0 = outfile
    /\ epc = "start"
    /\ raised = ""
    /\ commits = <<>> /\ idx = 0 /\ churn_records = <<>>
    /\ skipped = <<>>
    /\ ValidateIdle /\ ScoreIdle

NextExtract == CheckPath \/ OpenRepo \/ LoopCommit \/ WriteCsv

SpecExtract == InitExtract /\ [][NextExtract]_vars

InitValidate ==
    /\ csv \in {NoFile} \cup {[exists |-> TRUE, rows |-> <<Header>> \o d] : d \in DataSets}
    /\ today \in Todays
    /\ vpc = "start"
    /\ raised = ""
    /\ df = <<>> /\ df0 = <<>> /\ checks = NoChecks
    /\ timeliness = NoScore /\ chart = FALSE
    /\ ExtractIdle /\ ScoreIdle

NextValidate ==
    MainMissing \/ MainLoad \/ MainChecks \/ MainTimeliness \/ MainVisualize

SpecValidate == InitValidate /\ [][NextValidate]_vars

\* Rows that differ in their date only: compute_timeliness reads the date
\* column and the row count.
DateRows == {With(BaseRow, "date", t) :
                t \in {"2024-01-01", "2024-03-31", "2024-04-01", "foo", ""}}

InitScore ==
    /\ csv \in {[exists |-> TRUE, rows |-> <<Header>> \o d] :
                   d \in UNION { [1..n -> DateRows] : n \in 1..MaxRows }}
    /\ added \in DateRows
    /\ today \in Todays
    /\ df = Loaded(csv.rows, today)
    /\ df0 = df
    /\ vpc = "base"
    /\ raised = ""
    /\ checks = NoChecks /\ timeliness = NoScore /\ chart = FALSE
    /\ timeliness2 = NoScore
    /\ ExtractIdle

NextScore == ScoreBase \/ AddRecord \/ ScoreExtended

SpecScore == InitScore /\ [][NextScore]_vars

\* ======================================================================
\* Properties
\* ======================================================================

ShortHash(c) == SubSeq(c.hexsha, 1, HashLen)
Failed(h) == {i \in 1..Len(h) : Raises(h[i])}
Survivors(h) == {i \in 1..Len(h) : ~Raises(h[i])}
\* The (commit, file) pairs of the commits whose processing did not raise.
Pairs(h) == UNION {{<<i, j>> : j \in 1..Len(h[i].files)} : i \in Survivors(h)}
\* Number of records that precede those of commit i.
Offset(h, i) == Cardinality({p \in Pairs(h) : p[1] < i})

\* C1: no record, in the accumulated list or in the file written, belongs to
\* a commit whose processing raised; a raising commit never ends the run: the
\* loop visits every commit, each raising commit is reported once, every
\* file of every later commit that did not raise has its record, and the
\* output is written.
ExtractSkipsFailedCommits ==
    /\ \A k \in 1..Len(churn_records) : \A i \in Failed(commits) :
           churn_records[k].commit_hash # ShortHash(commits[i])
    /\ (repo_path = "valid" => epc # "raised" /\ raised = "")
    /\ (epc = "done" =>
          /\ commits = history
          /\ idx = Len(commits)
          /\ skipped = [n \in 1..Len(skipped) |->
                          ShortHash(commits[CHOOSE i \in Failed(commits) :
                              Cardinality({x \in Failed(commits) : x <= i}) = n])]
          /\ Len(skipped) = Cardinality(Failed(commits))
          /\ \A i \in Survivors(commits) : \A j \in 1..Len(commits[i].files) :
                 \E k \in 1..Len(churn_records) :
                     churn_records[k] = Record(commits[i], commits[i].files[j])
          /\ outfile.exists
          /\ outfile.rows = <<Header>> \o CsvRows(churn_records)
          /\ \A k \in 2..Len(outfile.rows) : \A i \in Failed(commits) :
                 outfile.rows[k][1] # ShortHash(commits[i]))

\* A finished run in which a commit raised at its statistics, another while
\* its first record was built, and a later commit still got its records.
ExtractSkipsFailedCommitsWitness ==
    /\ epc = "done"
    /\ \E a, b, c \in 1..Len(commits) :
           /\ a < c /\ b < c
           /\ commits[a].fails = "stats"
           /\ commits[b].fails = "attr" /\ Raises(commits[b])
           /\ ~Raises(commits[c])
           /\ Len(commits[c].files) > 0
    /\ Len(outfile.rows) > 1

\* C5: when repo_path does not exist or holds no repository, the run ends in
\* an exception and the destination is never touched: the file there (or its
\* absence) stays what it was before the run.
ExtractInvalidRepoLeavesOutput ==
    repo_path # "valid" =>
        /\ outfile = outfile0
        /\ epc \in {"start", "open", "raised"}
        /\ (epc = "raised" =>
              raised \in {"FileNotFoundError", "InvalidGitRepositoryError"})
        /\ churn_records = <<>>

\* The run has failed on a directory that is no repository, with a file
\* already at the destination.
ExtractInvalidRepoLeavesOutputWitness ==
    /\ epc = "raised"
    /\ repo_path = "notrepo"
    /\ raised = "InvalidGitRepositoryError"
    /\ outfile0 = OldFile

\* C9: the list written holds, for the commits that did not raise taken in
\* history order and for each one's files in their order, exactly the record
\* of that (commit, file) pair at its place: one record per pair, none twice,
\* none out of order, each commit's records contiguous.
ExtractOneRecordPerFile ==
    epc = "done" =>
        /\ Len(churn_records) = Cardinality(Pairs(history))
        /\ \A p \in Pairs(history) :
               churn_records[Offset(history, p[1]) + p[2]]
                   = Record(history[p[1]], history[p[1]].files[p[2]])
        /\ \A k, m \in 1..Len(churn_records) :
               k # m => churn_records[k] # churn_records[m]
        /\ Len(outfile.rows) = 1 + Len(churn_records)
        /\ outfile.rows[1] = Header
        /\ \A k \in 1..Len(churn_records) :
               outfile.rows[k + 1] = CsvRow(churn_records[k])

\* A finished run over a history with a two-file commit, a skipped commit and
\* a further commit with a file.
ExtractOneRecordPerFileWitness ==
    /\ epc = "done"
    /\ Len(churn_records) >= 3
    /\ skipped # <<>>
    /\ \E k \in 1..(Len(churn_records) - 1) :
           /\ churn_records[k].commit_hash = churn_records[k + 1].commit_hash
           /\ k + 2 <= Len(churn_records)
           /\ churn_records[k + 2].commit_hash # churn_records[k].commit_hash

\* main is past free_of_error_checks, which returned its dictionary.
ChecksReturned == vpc \in {"score", "visualize", "done"} /\ DOMAIN checks = CheckNames
DatesParsed(d) == \A i \in 1..Len(d) : d[i]["date"].k \in {"ts", "nat"}

\* C2: the frame main holds always equals the frame read_csv returned: no
\* field of any record changes, the date column included, and no row is
\* added or removed.
ValidatorNeverMutates == df = df0

\* C3: free_of_error_checks never raises: main never ends in an exception
\* that left free_of_error_checks, whatever the dates and LOC fields hold.
ChecksNeverRaise == ~(vpc = "raised" /\ DOMAIN checks # CheckNames)

\* C4: with a header-only churn_data.csv main never ends in an uncaught
\* exception: the division by the record count is guarded.
EmptyDatasetGuarded == (csv.exists /\ Len(csv.rows) = 1) => vpc # "raised"

\* C6: no_duplicates is true exactly when the rows passed in are pairwise
\* distinct, the date compared as it was passed in.
NoDuplicatesIffDistinctInput ==
    ChecksReturned =>
        (checks["no_duplicates"]
            <=> \A i, j \in 1..Len(df0) : i # j => df0[i] # df0[j])

\* Records whose date is not older than the maximum date less 90 days, said
\* without the maximum: not more than 90 days older than any valid date.
InWindow(d) ==
    {i \in 1..Len(d) :
        /\ d[i]["date"].k = "ts"
        /\ \A j \in 1..Len(d) :
               d[j]["date"].k = "ts" => d[i]["date"].v >= d[j]["date"].v - WindowDays}

\* C8: for a non-empty dataset compute_timeliness returns the number of
\* records dated at or after the dataset's maximum date less 90 days over the
\* number of records; it lies in [0, 1], is at least 1/total when some date is
\* valid, and does not depend on the current date.
TimelinessIsWindowFraction ==
    (vpc \in {"visualize", "done"} /\ Len(df) > 0) =>
        /\ timeliness.den = Len(df)
        /\ timeliness.num = Cardinality(InWindow(df))
        /\ 0 <= timeliness.num /\ timeliness.num <= timeliness.den
        /\ ((\E i \in 1..Len(df) : df[i]["date"].k = "ts") => timeliness.num >= 1)

\* A score strictly between 0 and 1, with a record exactly on the cutoff, an
\* unparseable date, and a current date whose own 90-day window would give
\* another count.
TimelinessIsWindowFractionWitness ==
    /\ vpc = "done"
    /\ Len(df) = 3
    /\ timeliness.num = 2
    /\ \E i, j, n \in 1..Len(df) :
           /\ df[i]["date"].k = "ts" /\ df[j]["date"].k = "ts"
           /\ df[i]["date"].v = df[j]["date"].v - WindowDays
           /\ df[n]["date"].k = "nat"
    /\ Cardinality({i \in 1..Len(df) :
           df[i]["date"].k = "ts" /\ df[i]["date"].v >= today - WindowDays}) # timeliness.num

\* C10: compute_timeliness runs, and a score exists, only once
\* free_of_error_checks has returned and the date column holds parsed dates;
\* and with churn_data.csv absent main returns with no frame, no check
\* result, no score and no chart.
TimelinessAfterDateParsing ==
    /\ (vpc = "score" => DOMAIN checks = CheckNames /\ DatesParsed(df))
    /\ (timeliness # NoScore => DOMAIN checks = CheckNames /\ DatesParsed(df))
    /\ (chart => timeliness # NoScore)
    /\ (~csv.exists =>
          /\ vpc \in {"start", "returned"}
          /\ df = <<>> /\ DOMAIN checks = {} /\ timeliness = NoScore
          /\ ~chart /\ raised = "")

\* main is about to call compute_timeliness on a frame whose dates were
\* strings when it was loaded.
TimelinessAfterDateParsingWitness ==
    /\ vpc = "score"
    /\ Len(df) >= 2
    /\ \E i, j \in 1..Len(df) :
           /\ df0[i]["date"].k = "str" /\ df[i]["date"].k = "ts"
           /\ df0[j]["date"].k = "str" /\ df[j]["date"].k = "nat"

\* The date of the appended record and the dataset's maximum before it.
AddedDate == df[Len(df)]["date"]
BaseMax == MaxDate(Column(df0, "date"))

\* C7 as stated: a record dated within 90 days of the current maximum,
\* earlier or later, never lowers the score; one older than the cutoff never
\* raises it.
TimelinessMonotonicWithin90 ==
    (vpc = "compared" /\ BaseMax.k = "ts" /\ AddedDate.k = "ts") =>
        /\ ((AddedDate.v >= BaseMax.v - WindowDays /\ AddedDate.v <= BaseMax.v + WindowDays)
               => Leq(timeliness, timeliness2))
        /\ (AddedDate.v < BaseMax.v - WindowDays => Leq(timeliness2, timeliness))

\* C7 amended: a record dated from the cutoff up to the current maximum never
\* lowers the score; one older than the cutoff never raises it.
TimelinessMonotonicUpToMax ==
    (vpc = "compared" /\ BaseMax.k = "ts" /\ AddedDate.k = "ts") =>
        /\ ((AddedDate.v >= BaseMax.v - WindowDays /\ AddedDate.v <= BaseMax.v)
               => Leq(timeliness, timeliness2))
        /\ (AddedDate.v < BaseMax.v - WindowDays => Leq(timeliness2, timeliness))

\* A record dated exactly on the cutoff was added and the score rose.
TimelinessMonotonicUpToMaxWitness ==
    /\ vpc = "compared"
    /\ BaseMax.k = "ts" /\ AddedDate.k = "ts"
    /\ AddedDate.v = BaseMax.v - WindowDays
    /\ ~Leq(timeliness2, timeliness)

====
